---- MODULE Spec2Model ----
(***************************************************************************)
(* A model of kimt33/calculation_scripts:                                  *)
(*   run_calc.py   make_dirs (directory provisioning), run_calcs (job      *)
(*                 dispatch)                                               *)
(*   read_calc.py  status, extract_results, trim                           *)
(* Strings are sequences of one-character tokens where the code looks      *)
(* inside them (glob patterns, resource strings); log texts are sequences  *)
(* of lines, a line a sequence of words.                                   *)
(***************************************************************************)
EXTENDS Integers, Sequences, FiniteSets, TLC

VARIABLES
    \* ---- make_dirs: the working directory and the last call
    fs,          \* directory name -> [xyz, gbs]: the directories make_dirs made
    gbsAvail,    \* whether basis/<basis>.gbs exists
    call,        \* the arguments of the last make_dirs call
    outcome,     \* "none" | "done" | "FileExistsError" of the last call
    written,     \* directories whose system.xyz2 the last call wrote
    moved,       \* directories the last call made under a moved index
    ncalls,      \* calls made so far
    \* ---- status / extract_results: the artifacts and the last call
    logs,        \* path -> text of the .out artifacts that exist
    npys,        \* path -> array of the .npy artifacts that exist
    pattern,     \* the pattern of the last call
    matched,     \* what glob.glob(pattern) returned, in its order
    lists,       \* status: [success, opt_failed, code_failed, running]
    exOutput,    \* extract_results: the records returned
    exOpened,    \* the paths whose content the last call read
    exError,     \* "none" or the exception that ended the last call
    exPhase,     \* "idle" | "status" | "extract": the last call made
    \* ---- trim
    tx,          \* x: the path indices
    ty,          \* y: the energies, in units of 1e-9
    keep,        \* 'all' | 'min' | 'frequent'
    new_x,       \* the indices returned
    new_y,       \* the energies returned
    tPhase,      \* "idle" | "done"
    \* ---- run_calcs
    rtime,       \* the time argument, a string
    rmemory,     \* the memory argument, a string
    rpresent,    \* the files and directories that exist
    rmatched,    \* what glob.glob(pattern) returned, in its order
    executed,    \* the subprocess.run calls made, in order
    scripts,     \* the directories an hf_sp.sh was written in
    rError,      \* "none" or the exception that ended the call
    rPhase       \* "idle" | "done"

dvars == <<fs, gbsAvail, call, outcome, written, moved, ncalls>>
evars == <<logs, npys, pattern, matched, lists, exOutput, exOpened, exError, exPhase>>
tvars == <<tx, ty, keep, new_x, new_y, tPhase>>
vars == <<fs, gbsAvail, call, outcome, written, moved, ncalls,
          logs, npys, pattern, matched, lists, exOutput, exOpened, exError, exPhase,
          tx, ty, keep, new_x, new_y, tPhase,
          rtime, rmemory, rpresent, rmatched, executed, scripts, rError, rPhase>>
rvars == <<rtime, rmemory, rpresent, rmatched, executed, scripts, rError, rPhase>>

(***************************************************************************)
(* Bounds                                                                  *)
(***************************************************************************)
MaxCalls == 3
MaxSteps == 2
MaxFiles == 2
MaxLen == 4
MaxMatched == 2

(***************************************************************************)
(* make_dirs (run_calc.py)                                                 *)
(***************************************************************************)
\* Calculation names: plain ones and one holding a glob character class.
Names == { <<"a">>, <<"a", "b">>, <<"a", "[", "b", "]">> }

\* Basis-set names.
Bases == { <<"b">> }

\* The structures make_xyz.xyz_from_templates can generate.
Structs == {"s1", "s2", "s3", "s4"}

\* start_template 'x_1', end_template 'x_2': the two indices, concatenated.
TemplateIndices == <<"1", "2">>

DigitChar == <<"0", "1", "2", "3", "4", "5", "6", "7", "8", "9">>

\* str(i) of a natural number, one token per digit.
RECURSIVE Digits(_)
Digits(n) == IF n < 10 THEN <<DigitChar[n + 1]>>
             ELSE Digits(n \div 10) \o <<DigitChar[(n % 10) + 1]>>

\* dir_basename.format(x): f'{name}_{start}{end}_{x}_{basis}'
Format(bn, x) ==
    bn.name \o <<"_">> \o TemplateIndices \o <<"_">> \o x \o <<"_">> \o bn.basis

\* Position of the ']' closing the character class that opens at pat[1] = "[",
\* 0 if there is none (fnmatch then takes '[' literally).  A ']' right after
\* the '[' is a member of the class.
ClassEnd(pat) ==
    LET cand == { j \in 3..Len(pat) : pat[j] = "]" }
    IN  IF cand = {} THEN 0 ELSE CHOOSE j \in cand : \A k \in cand : j <= k

\* fnmatch: '*' any run of characters, '?' any one, '[seq]' any one of seq.
RECURSIVE FnMatch(_, _)
FnMatch(pat, s) ==
    IF pat = <<>> THEN s = <<>>
    ELSE IF Head(pat) = "*"
         THEN \E k \in 0..Len(s) : FnMatch(Tail(pat), SubSeq(s, k + 1, Len(s)))
    ELSE IF Head(pat) = "?"
         THEN s # <<>> /\ FnMatch(Tail(pat), Tail(s))
    ELSE IF Head(pat) = "[" /\ ClassEnd(pat) > 0
         THEN /\ s # <<>>
              /\ \E j \in 2..(ClassEnd(pat) - 1) : pat[j] = Head(s)
              /\ FnMatch(SubSeq(pat, ClassEnd(pat) + 1, Len(pat)), Tail(s))
    ELSE s # <<>> /\ Head(s) = Head(pat) /\ FnMatch(Tail(pat), Tail(s))

\* glob.glob(pattern) in the working directory.
Glob(f, pat) == { d \in DOMAIN f : FnMatch(pat, d) }

\* os.path.isdir(dirname)
IsDir(f, d) == d \in DOMAIN f

\* os.mkdir(dirname) raises FileExistsError when the name is taken.
MkdirRaisesExistOk(f, d) == FALSE
MkdirRaises(f, d) == d \in DOMAIN f

\* open(dirname/system.xyz2, 'w').write(xyz), then the copy of the .gbs file
\* when basis/<basis>.gbs exists.
WriteFiles(f, d, xyz, gbs) ==
    [x \in (DOMAIN f) \cup {d} |-> IF x = d THEN [xyz |-> xyz, gbs |-> gbs] ELSE f[x]]

\* Lines 61-75: mkdir, write system.xyz2, copy the .gbs file.
CreateDir(st, d, xyz, gbs, isMoved) ==
    IF MkdirRaises(st.fs, d)
    THEN [st EXCEPT !.err = TRUE]
    ELSE [st EXCEPT !.fs = WriteFiles(st.fs, d, xyz, gbs),
                    !.written = @ \cup {d},
                    !.moved = IF isMoved THEN @ \cup {d} ELSE @]

\* The structure matches the system.xyz2 of one of the globbed directories.
HasMatched(f, others, xyz) == \E o \in others : f[o].xyz = xyz

\* The index a mismatching step moves to: i += len(other_dirnames).
MovedIndex(i, others) == i + Cardinality(others)

\* One iteration of the loop of make_dirs (lines 35-75).
LoopBody(st, bn, i, xyz, gbs) ==
    LET dirname == Format(bn, Digits(i))
        others  == Glob(st.fs, Format(bn, <<"*">>))
    IN  IF IsDir(st.fs, dirname)
        THEN IF HasMatched(st.fs, others, xyz)
             THEN st
             ELSE CreateDir(st, Format(bn, Digits(MovedIndex(i, others))),
                            xyz, gbs, TRUE)
        ELSE CreateDir(st, dirname, xyz, gbs, FALSE)

\* The loop from step i on; an exception ends the call where it is raised.
RECURSIVE Loop(_, _, _, _, _)
Loop(st, bn, xyzs, i, gbs) ==
    IF st.err \/ i >= Len(xyzs) THEN st
    ELSE Loop(LoopBody(st, bn, i, xyzs[i + 1], gbs), bn, xyzs, i + 1, gbs)

\* make_dirs(name, start_template, end_template, basis, num_steps) on f.
MakeDirs(f, bn, xyzs, gbs) ==
    Loop([fs |-> f, written |-> {}, moved |-> {}, err |-> FALSE], bn, xyzs, 0, gbs)

Basenames == [name : Names, basis : Bases]

StructSeqs == UNION { [1..n -> Structs] : n \in 1..MaxSteps }

NoCall == [bn |-> [name |-> <<>>, basis |-> <<>>], xyzs |-> <<>>]

EIdle ==
    /\ logs = <<>>
    /\ npys = <<>>
    /\ pattern = [kind |-> "none", depth |-> 0]
    /\ matched = <<>>
    /\ lists = [success |-> <<>>, opt_failed |-> <<>>, code_failed |-> <<>>,
                running |-> <<>>]
    /\ exOutput = <<>>
    /\ exOpened = {}
    /\ exError = "none"
    /\ exPhase = "idle"

TIdle ==
    /\ tx = <<>>
    /\ ty = <<>>
    /\ keep = "all"
    /\ new_x = <<>>
    /\ new_y = <<>>
    /\ tPhase = "idle"

RIdle ==
    /\ rtime = <<>>
    /\ rmemory = <<>>
    /\ rpresent = {}
    /\ rmatched = <<>>
    /\ executed = <<>>
    /\ scripts = {}
    /\ rError = "none"
    /\ rPhase = "idle"

DirsInit ==
    /\ EIdle
    /\ TIdle
    /\ RIdle
    /\ fs = <<>>
    /\ gbsAvail \in BOOLEAN
    /\ call = NoCall
    /\ outcome = "none"
    /\ written = {}
    /\ moved = {}
    /\ ncalls = 0

MakeDirsCall ==
    /\ ncalls < MaxCalls
    /\ \E bn \in Basenames, xyzs \in StructSeqs :
          LET r == MakeDirs(fs, bn, xyzs, gbsAvail)
          IN  /\ fs' = r.fs
              /\ call' = [bn |-> bn, xyzs |-> xyzs]
              /\ outcome' = IF r.err THEN "FileExistsError" ELSE "done"
              /\ written' = r.written
              /\ moved' = r.moved
    /\ ncalls' = ncalls + 1
    /\ UNCHANGED gbsAvail
    /\ UNCHANGED <<evars, tvars, rvars>>

DirsNext == MakeDirsCall

DirsSpec == DirsInit /\ [][DirsNext]_vars

\* Names without glob metacharacters.
PlainNames == { n \in Names : \A k \in 1..Len(n) : n[k] \notin {"*", "?", "["} }

\* C1: make_dirs never changes the system.xyz2 of a directory that existed
\* before the call; it writes system.xyz2 only into directories that the same
\* call has just created.
C1_NeverOverwrites ==
    [][ /\ \A d \in DOMAIN fs : d \in DOMAIN fs' /\ fs'[d].xyz = fs[d].xyz
        /\ written' \subseteq (DOMAIN fs') \ (DOMAIN fs) ]_vars

\* A call met an existing directory whose structure matched none, and made
\* its directory under a moved index.
C1_Witness == outcome = "done" /\ moved # {}

\* C2: a step whose directory exists and whose structure matches no stored
\* one is given an unused index, so no call fails on an existing directory
\* name.  Stated for the names whose glob lists the template's own
\* directories.
C2_MovedIndexUnused ==
    call.bn.name \in PlainNames => outcome # "FileExistsError"

\* C3: after a call that ran to completion, the same call again (same
\* arguments, same structures) matches every step: no error, no directory
\* made, no file written.
C3_Idempotent ==
    outcome = "done" =>
        LET r == MakeDirs(fs, call.bn, call.xyzs, gbsAvail)
        IN  ~r.err /\ r.written = {} /\ r.fs = fs

\* The same for the names without glob metacharacters, where it holds.
C3_IdempotentPlainNames ==
    (outcome = "done" /\ call.bn.name \in PlainNames) =>
        LET r == MakeDirs(fs, call.bn, call.xyzs, gbsAvail)
        IN  ~r.err /\ r.written = {} /\ r.fs = fs

(***************************************************************************)
(* status and extract_results (read_calc.py)                               *)
(***************************************************************************)
\* Lines of the external program's log, as words.
LNuc == <<"Nuclear-nuclear", "repulsion:", "0.7">>
LNucBare == <<"Nuclear-nuclear", "repulsion:">>
LIter == <<"Iterat", "Feval", "Energy", "Axis", "Sigma">>
LRow == <<"1", "10", "-1.1", "1.0", "0.5", "0:01">>
LRowShort == <<"1", "10", "-1.1">>
LPartial == <<"2", "20">>
LSuccess == <<"Optimization", "was", "successful">>
LOptFailed == <<"Optimization", "was", "not", "successful:", "maxiter">>
LEnergy == <<"Final", "Energy:", "-1.2">>
LTraceback == <<"Traceback", "(", "most", "recent", "call", "last", ")", ":">>
LTracebackBare == <<"Traceback", "most", "recent", "call", "last", ":">>
LError == <<"ValueError:", "could", "not", "convert", "string">>
LErrorShort == <<"MemoryError">>
\* What follows the last newline of a text that ends in one.
LEnd == <<>>

\* The log texts, each the list re.split('\n', text) gives.
TEmpty == <<LEnd>>
TDone == <<LNuc, LIter, LRow, LSuccess, LEnergy, LEnd>>
TDoneNoEnergy == <<LNuc, LIter, LRow, LSuccess, LEnd>>
TDoneNoNuc == <<LNucBare, LSuccess, LEnergy, LEnd>>
TDoneTraceback == <<LNuc, LSuccess, LEnergy, LTraceback, LErrorShort, LEnd>>
TOptFailed == <<LNuc, LIter, LRow, LOptFailed, LEnd>>
TOptFailedTraceback == <<LNuc, LOptFailed, LTraceback, LErrorShort, LEnd>>
TTraceback == <<LNuc, LIter, LRow, LTraceback, LError, LEnd>>
TTracebackOnly == <<LTraceback, LErrorShort, LEnd>>
TTracebackBare == <<LNuc, LTracebackBare, LErrorShort, LEnd>>
TRunning == <<LNuc, LIter, LRow, LPartial>>
TRunningHeader == <<LNuc, LIter, LEnd>>
TRunningOneLine == <<LNuc>>
TRunningShortRow == <<LNuc, LIter, LRowShort, LEnd>>
TRunningNoNuc == <<LIter, LRow, LEnd>>

Texts == { TEmpty, TDone, TDoneNoEnergy, TDoneNoNuc, TDoneTraceback, TOptFailed,
           TOptFailedTraceback, TTraceback, TTracebackOnly, TTracebackBare,
           TRunning, TRunningHeader, TRunningOneLine, TRunningShortRow,
           TRunningNoNuc }

\* The arrays a .npy artifact can hold.
Arrays == { <<"-1.1", "0.7">>, <<"-1.1">>, <<"-1.1", "0.7", "0.0">> }

\* The patterns of lines 25-29, 77 and 81, as words.  The blank that ends
\* 'Optimization was not successful: ' separates words and is not kept.
SuccessPattern == <<"Optimization", "was", "successful">>
OptFailedPattern == <<"Optimization", "was", "not", "successful:">>
TracebackPattern == <<"Traceback", "(", "most", "recent", "call", "last", ")", ":">>
NucPattern == <<"Nuclear-nuclear", "repulsion:", "(", ".+", ")">>
EnergyPattern == <<"Final", "Energy:", "(", ".+", ")">>

\* The words of `pat` stand in `line` from position k on.
WordsAt(line, pat, k) ==
    /\ k + Len(pat) - 1 <= Len(line)
    /\ \A j \in 1..Len(pat) : line[k + j - 1] = pat[j]

\* The text holds the words of `pat` in a row (a substring test).
Contains(text, pat) ==
    \E l \in 1..Len(text) : \E k \in 1..Len(text[l]) : WordsAt(text[l], pat, k)

\* A pattern as the regular expression re.search compiles: "(" and ")" open
\* and close a group and match no character themselves.
RegexWords(pat) == SelectSeq(pat, LAMBDA w : w \notin {"(", ")"})

\* re.search(pat, text) finds a match (for a pattern without ".+").
ReSearch(pat, text) == Contains(text, RegexWords(pat))

\* re.search(r'<words> (.+)', text): the first line holding the words with
\* something after them; group(1) is the rest of that line.
ReCapture(pat, text) ==
    LET words == SelectSeq(RegexWords(pat), LAMBDA w : w # ".+")
        hit(l) == { k \in 1..Len(text[l]) :
                      WordsAt(text[l], words, k) /\ k + Len(words) <= Len(text[l]) }
        ls == { l \in 1..Len(text) : hit(l) # {} }
    IN  IF ls = {} THEN [found |-> FALSE, group |-> <<>>]
        ELSE LET l == CHOOSE x \in ls : \A y \in ls : x <= y
                 k == CHOOSE x \in hit(l) : \A y \in hit(l) : x <= y
             IN  [found |-> TRUE,
                  group |-> SubSeq(text[l], k + Len(words), Len(text[l]))]

\* The list status puts a text in (lines 25-32).
Classify(text) ==
    IF ReSearch(SuccessPattern, text) THEN "success"
    ELSE IF ReSearch(OptFailedPattern, text) THEN "opt_failed"
    ELSE IF ReSearch(TracebackPattern, text) THEN "code_failed"
    ELSE "running"

\* The artifact paths: the segments below the working root (each segment its
\* '_'-separated parts), whether os.path.abspath puts the path under the root
\* (lexIn) and whether the file it names lies under it (realIn).
Seg(w) == <<w>>
SysDir(i) == <<"h2", i, "sto3g">>
Path ==
    [ o6a   |-> [ext |-> "out", lexIn |-> TRUE, realIn |-> TRUE,
                 segs |-> <<Seg("d"), SysDir("0"), Seg("mo"), Seg("ap1rog"), Seg("0"),
                            Seg("results.out")>>],
      o6b   |-> [ext |-> "out", lexIn |-> TRUE, realIn |-> TRUE,
                 segs |-> <<Seg("d"), SysDir("1"), Seg("mo"), Seg("ap1rog"), Seg("1"),
                            Seg("results.out")>>],
      o6lnk |-> [ext |-> "out", lexIn |-> TRUE, realIn |-> FALSE,
                 segs |-> <<Seg("d"), SysDir("2"), Seg("mo"), Seg("link"), Seg("0"),
                            Seg("results.out")>>],
      o6up  |-> [ext |-> "out", lexIn |-> FALSE, realIn |-> FALSE,
                 segs |-> <<Seg(".."), SysDir("3"), Seg("mo"), Seg("ap1rog"), Seg("0"),
                            Seg("results.out")>>],
      o5    |-> [ext |-> "out", lexIn |-> TRUE, realIn |-> TRUE,
                 segs |-> <<Seg("d"), SysDir("0"), Seg("mo"), Seg("ap1rog"),
                            Seg("results.out")>>],
      o4    |-> [ext |-> "out", lexIn |-> TRUE, realIn |-> TRUE,
                 segs |-> <<Seg("d"), SysDir("0"), Seg("mo"), Seg("results.out")>>],
      n4a   |-> [ext |-> "npy", lexIn |-> TRUE, realIn |-> TRUE,
                 segs |-> <<Seg("d"), SysDir("0"), Seg("mo"), <<"hf", "energies.npy">> >>],
      n4b   |-> [ext |-> "npy", lexIn |-> TRUE, realIn |-> TRUE,
                 segs |-> <<Seg("d"), SysDir("1"), Seg("mo"), <<"hf", "energies.npy">> >>],
      n4up  |-> [ext |-> "npy", lexIn |-> FALSE, realIn |-> FALSE,
                 segs |-> <<Seg(".."), SysDir("3"), Seg("mo"), <<"hf", "energies.npy">> >>],
      n5    |-> [ext |-> "npy", lexIn |-> TRUE, realIn |-> TRUE,
                 segs |-> <<Seg("d"), SysDir("0"), Seg("mo"), Seg("x"),
                            <<"hf", "energies.npy">> >>] ]

OutPaths == {"o6a", "o6b", "o6lnk", "o6up", "o5", "o4"}
NpyPaths == {"n4a", "n4b", "n4up", "n5"}

\* The patterns: the extension they end in and the number of path components
\* they have (a glob without '**' matches paths of one depth).
Patterns == [kind : {"out", "npy", "other"}, depth : 4..6]

\* The paths glob.glob(pattern) finds.
GlobFiles(pat, lg, np) ==
    { p \in (IF pat.kind = "out" THEN DOMAIN lg
             ELSE IF pat.kind = "npy" THEN DOMAIN np ELSE {}) :
        Len(Path[p].segs) = pat.depth }

\* The orders glob.glob can return a set of paths in.
Orders(S) ==
    { f \in [1..Cardinality(S) -> S] : \A i, j \in 1..Cardinality(S) : f[i] = f[j] => i = j }

\* status(pattern), lines 17-34: every match is opened and read, then listed.
RECURSIVE Status(_, _, _)
Status(ms, lg, acc) ==
    IF ms = <<>> THEN acc
    ELSE LET c == Classify(lg[Head(ms)])
         IN  Status(Tail(ms), lg, [acc EXCEPT ![c] = Append(@, Head(ms))])

NoLists ==
    [success |-> <<>>, opt_failed |-> <<>>, code_failed |-> <<>>, running |-> <<>>]

\* system_basis.rsplit('_', 1), line 97.
RSplit(seg) == [system |-> SubSeq(seg, 1, Len(seg) - 1), basis |-> seg[Len(seg)]]

\* Lines 97-105: the record of an artifact.  src is the path it came from.
Record(p, fields) ==
    LET segs == Path[p].segs
        sb == RSplit(segs[2])
    IN  fields @@ [src |-> p, system |-> sb.system, basis |-> sb.basis,
                   orbital |-> segs[3], filename |-> segs[Len(segs)]]

\* One iteration of the loop of extract_results (lines 54-105).
ExtractBody(st, p, is_complete, lg, np) ==
    LET segs == Path[p].segs IN
    IF ~Path[p].lexIn THEN st
    ELSE IF Len(segs) = 6 THEN
        LET results == lg[p]
            st1 == [st EXCEPT !.opened = @ \cup {p}]
            re_nuc == ReCapture(NucPattern, results)
            re_energy == ReCapture(EnergyPattern, results)
            lastline == results[Len(results) - 1]
        IN  IF results = TEmpty THEN st1
            ELSE IF ~re_nuc.found THEN [st1 EXCEPT !.err = "AttributeError"]
            ELSE IF is_complete THEN
                IF ~re_energy.found THEN [st1 EXCEPT !.err = "AttributeError"]
                ELSE [st1 EXCEPT !.output = Append(@,
                        Record(p, [wfn |-> segs[4], index |-> segs[5],
                                   energy |-> re_energy.group,
                                   nuc_nuc |-> re_nuc.group]))]
            ELSE IF Len(results) < 2 THEN [st1 EXCEPT !.err = "IndexError"]
            ELSE IF \E k \in 1..Len(lastline) : lastline[k] = "Iterat" THEN st1
            ELSE IF Len(lastline) < 5 THEN [st1 EXCEPT !.err = "ValueError"]
            ELSE [st1 EXCEPT !.output = Append(@,
                        Record(p, [wfn |-> segs[4], index |-> segs[5],
                                   energy |-> <<lastline[3]>>,
                                   nuc_nuc |-> re_nuc.group,
                                   sigma |-> lastline[5]]))]
    ELSE IF Len(segs) = 4 THEN
        LET st1 == [st EXCEPT !.opened = @ \cup {p}]
        IN  IF Path[p].ext # "npy" THEN [st1 EXCEPT !.err = "LoadError"]
            ELSE IF Len(np[p]) # 2 THEN [st1 EXCEPT !.err = "ValueError"]
            ELSE [st1 EXCEPT !.output = Append(@,
                        Record(p, [wfn |-> Seg("hf"), energy |-> <<np[p][1]>>,
                                   nuc_nuc |-> <<np[p][2]>>]))]
    ELSE [st EXCEPT !.err = "NotImplementedError"]

\* The loop over filenames + running from position i on; an exception ends
\* the call and nothing is returned.
RECURSIVE ExtractLoop(_, _, _, _, _, _)
ExtractLoop(st, all, ncomplete, i, lg, np) ==
    IF st.err # "none" THEN [st EXCEPT !.output = <<>>]
    ELSE IF i > Len(all) THEN st
    ELSE ExtractLoop(ExtractBody(st, all[i], i <= ncomplete, lg, np),
                     all, ncomplete, i + 1, lg, np)

\* extract_results(pattern), with ms what glob.glob(pattern) returns.
ExtractResults(pat, ms, lg, np) ==
    IF pat.kind = "out" THEN
        LET l == Status(ms, lg, NoLists)
        IN  ExtractLoop([output |-> <<>>, opened |-> {ms[k] : k \in 1..Len(ms)},
                         err |-> "none"],
                        l.success \o l.running, Len(l.success), 1, lg, np)
    ELSE IF pat.kind = "npy" THEN
        ExtractLoop([output |-> <<>>, opened |-> {}, err |-> "none"],
                    ms, Len(ms), 1, lg, np)
    ELSE [output |-> <<>>, opened |-> {}, err |-> "UnboundLocalError"]

\* The artifacts on disk: at most MaxFiles of them.
Within(S, n) == { X \in SUBSET S : Cardinality(X) <= n }
FileChoices ==
    { c \in [lg : Within(OutPaths, MaxFiles), np : Within(NpyPaths, MaxFiles)] :
        Cardinality(c.lg) + Cardinality(c.np) <= MaxFiles }

DIdle ==
    /\ fs = <<>>
    /\ gbsAvail = FALSE
    /\ call = NoCall
    /\ outcome = "none"
    /\ written = {}
    /\ moved = {}
    /\ ncalls = 0

ExtractInit ==
    /\ DIdle
    /\ TIdle
    /\ RIdle
    /\ \E c \in FileChoices :
          /\ logs \in [c.lg -> Texts]
          /\ npys \in [c.np -> Arrays]
    /\ pattern = [kind |-> "none", depth |-> 0]
    /\ matched = <<>>
    /\ lists = NoLists
    /\ exOutput = <<>>
    /\ exOpened = {}
    /\ exError = "none"
    /\ exPhase = "idle"

\* status(pattern) on a pattern of .out artifacts.
StatusCall ==
    /\ \E pat \in Patterns :
          /\ pat.kind = "out"
          /\ \E ms \in Orders(GlobFiles(pat, logs, npys)) :
                /\ pattern' = pat
                /\ matched' = ms
                /\ lists' = Status(ms, logs, NoLists)
                /\ exOpened' = {ms[k] : k \in 1..Len(ms)}
    /\ exOutput' = <<>>
    /\ exError' = "none"
    /\ exPhase' = "status"
    /\ UNCHANGED <<logs, npys>>
    /\ UNCHANGED <<dvars, tvars, rvars>>

ExtractCall ==
    /\ \E pat \in Patterns :
          \E ms \in Orders(GlobFiles(pat, logs, npys)) :
             LET r == ExtractResults(pat, ms, logs, npys)
             IN  /\ pattern' = pat
                 /\ matched' = ms
                 /\ lists' = IF pat.kind = "out" THEN Status(ms, logs, NoLists)
                             ELSE NoLists
                 /\ exOutput' = r.output
                 /\ exOpened' = r.opened
                 /\ exError' = r.err
    /\ exPhase' = "extract"
    /\ UNCHANGED <<logs, npys>>
    /\ UNCHANGED <<dvars, tvars, rvars>>

ExtractNext == StatusCall \/ ExtractCall

ExtractSpec == ExtractInit /\ [][ExtractNext]_vars

\* The classification the priority rule gives by plain substring tests.
MarkerClass(text) ==
    IF Contains(text, <<"Optimization", "was", "successful">>) THEN "success"
    ELSE IF Contains(text, <<"Optimization", "was", "not", "successful:">>)
         THEN "opt_failed"
    ELSE IF Contains(text, LTraceback) THEN "code_failed"
    ELSE "running"

InList(l, p) == \E k \in 1..Len(l) : l[k] = p
Matched == { matched[k] : k \in 1..Len(matched) }
Sources == { exOutput[k].src : k \in 1..Len(exOutput) }

\* C4: status puts every matched artifact in exactly the list its text has by
\* priority: Success if it holds 'Optimization was successful', else
\* OptimizationFailed if it holds 'Optimization was not successful: ', else
\* CodeFailed if it holds 'Traceback (most recent call last):', else Running.
C4_StatusByPriority ==
    exPhase = "status" =>
        \A p \in Matched :
            \A c \in {"success", "opt_failed", "code_failed", "running"} :
                InList(lists[c], p) <=> c = MarkerClass(logs[p])

\* C5: for a .out pattern, an Optimization-Failed or Code-Failed artifact gives
\* no record and no error: every record comes from a Success or Running
\* artifact, and a call that matches only failed artifacts returns nothing
\* and raises nothing.
C5_FailedOmitted ==
    (exPhase = "extract" /\ pattern.kind = "out") =>
        /\ \A p \in Sources : MarkerClass(logs[p]) \in {"success", "running"}
        /\ (\A p \in Matched : MarkerClass(logs[p]) \in {"opt_failed", "code_failed"})
              => (exError = "none" /\ exOutput = <<>>)

\* A log that extract_results can take a record from: the nuclear repulsion
\* line, and the final energy (complete) or a full last data row (running).
HasRow(text) == Len(text) >= 2 /\ Len(text[Len(text) - 1]) >= 5
                /\ \A k \in 1..Len(text[Len(text) - 1]) : text[Len(text) - 1][k] # "Iterat"
WellFormedLog(text) ==
    /\ Contains(text, LNucBare \o <<"0.7">>)
    /\ \/ MarkerClass(text) = "success" /\ Contains(text, LEnergy)
       \/ MarkerClass(text) = "running" /\ HasRow(text)
WellFormed(p) ==
    /\ Path[p].lexIn
    /\ IF Path[p].ext = "out" THEN WellFormedLog(logs[p]) ELSE Len(npys[p]) = 2

\* C6: a malformed artifact (a log without its marker or with too short a
\* last row, an array of the wrong shape) only loses its own record: the call
\* raises nothing and returns the records of the well-formed artifacts; a path
\* of 5 segments aborts the call.
C6_MalformedIsLocal ==
    exPhase = "extract" =>
        /\ ((pattern.kind = "out" /\ pattern.depth = 6)
              \/ (pattern.kind = "npy" /\ pattern.depth = 4))
              => /\ exError = "none"
                 /\ \A p \in Matched : WellFormed(p) => p \in Sources
        /\ (pattern.kind = "npy" /\ pattern.depth = 5
              /\ \E p \in Matched : Path[p].lexIn)
              => exError = "NotImplementedError"

\* C7: extract_results neither reads nor reports a file that lies outside the
\* working root.
C7_NeverOutsideRoot ==
    exPhase = "extract" =>
        /\ \A p \in exOpened : Path[p].realIn
        /\ \A p \in Sources : Path[p].realIn

(***************************************************************************)
(* trim (read_calc.py)                                                     *)
(***************************************************************************)
\* range(50), line 149.
ScanRange == 50

\* The (index, energy) samples, energies as integers in units of 1e-9:
\* -1.0, -1.000000004 (which rounds to -1.0), -1.00001 and -2.0; index 50 is
\* outside the scan range.
Samples == { <<3, -1000000000>>, <<3, -1000000004>>, <<3, -1000010000>>,
             <<3, -2000000000>>, <<7, -2000000000>>, <<7, -1000000000>>,
             <<7, -1000000004>>, <<50, -1000000000>> }
Keeps == {"all", "min", "frequent"}

\* np.around(v, 8): to the nearest multiple of 10 units, halves to even.
Around8(v) ==
    LET q == v \div 10
        r == v % 10
    IN  IF r < 5 THEN 10 * q
        ELSE IF r > 5 THEN 10 * (q + 1)
        ELSE IF q % 2 = 0 THEN 10 * q ELSE 10 * (q + 1)

\* y[x == i], rounded.
RECURSIVE Select(_, _, _)
Select(x, y, i) ==
    IF x = <<>> THEN <<>>
    ELSE (IF Head(x) = i THEN <<Around8(Head(y))>> ELSE <<>>)
         \o Select(Tail(x), Tail(y), i)

\* The values of a sequence without repeats, in the order met.
RECURSIVE UniqueInOrder(_)
UniqueInOrder(ys) ==
    IF ys = <<>> THEN <<>>
    ELSE LET rest == UniqueInOrder(SubSeq(ys, 1, Len(ys) - 1))
         IN  IF \E k \in 1..Len(rest) : rest[k] = ys[Len(ys)] THEN rest
             ELSE Append(rest, ys[Len(ys)])

\* The elements of a finite set of integers in ascending order.
RECURSIVE Ascending(_)
Ascending(S) ==
    IF S = {} THEN <<>>
    ELSE LET m == CHOOSE v \in S : \A w \in S : v <= w
         IN  <<m>> \o Ascending(S \ {m})

\* np.unique(y_vals): the distinct values, sorted.
Unique(ys) == Ascending({ ys[k] : k \in 1..Len(ys) })

\* hist: how often each distinct value occurs in y_vals (line 159).
Hist(ys, us) == [j \in 1..Len(us) |-> Cardinality({ k \in 1..Len(ys) : ys[k] = us[j] })]

\* np.argmax(hist): the first position of the largest entry.
ArgMax(h) ==
    CHOOSE j \in DOMAIN h :
        /\ \A k \in DOMAIN h : h[k] <= h[j]
        /\ \A k \in DOMAIN h : k < j => h[k] < h[j]

\* min(y_vals_unique)
Min(us) == CHOOSE v \in { us[k] : k \in 1..Len(us) } : \A k \in 1..Len(us) : v <= us[k]

\* The loop of trim from index i on (lines 149-171).
RECURSIVE TrimLoop(_, _, _, _, _)
TrimLoop(x, y, kp, i, acc) ==
    IF i >= ScanRange THEN acc
    ELSE IF \A k \in 1..Len(x) : x[k] # i THEN TrimLoop(x, y, kp, i + 1, acc)
    ELSE LET y_vals == Select(x, y, i)
             y_vals_unique == Unique(y_vals)
             hist == Hist(y_vals, y_vals_unique)
             next ==
               IF kp = "all"
               THEN [x |-> acc.x \o [j \in 1..Len(y_vals_unique) |-> i],
                     y |-> acc.y \o y_vals_unique]
               ELSE IF kp = "min"
               THEN [x |-> Append(acc.x, i), y |-> Append(acc.y, Min(y_vals_unique))]
               ELSE IF kp = "frequent"
               THEN [x |-> Append(acc.x, i),
                     y |-> Append(acc.y, y_vals_unique[ArgMax(hist)])]
               ELSE acc
         IN  TrimLoop(x, y, kp, i + 1, next)

\* trim(x, y, keep)
Trim(x, y, kp) == TrimLoop(x, y, kp, 0, [x |-> <<>>, y |-> <<>>])

TrimInit ==
    /\ DIdle
    /\ EIdle
    /\ RIdle
    /\ \E n \in 0..MaxLen : \E sq \in [1..n -> Samples] :
          /\ tx = [k \in 1..n |-> sq[k][1]]
          /\ ty = [k \in 1..n |-> sq[k][2]]
    /\ keep \in Keeps
    /\ new_x = <<>>
    /\ new_y = <<>>
    /\ tPhase = "idle"

TrimCall ==
    /\ tPhase = "idle"
    /\ LET r == Trim(tx, ty, keep)
       IN  /\ new_x' = r.x
           /\ new_y' = r.y
    /\ tPhase' = "done"
    /\ UNCHANGED <<tx, ty, keep>>
    /\ UNCHANGED <<dvars, evars, rvars>>

TrimNext == TrimCall

TrimSpec == TrimInit /\ [][TrimNext]_vars

\* The scenario of the specification: indices [3,3,3,7], energies
\* [-1.0,-1.0,-1.00001,-2.0].
ScenarioX == <<3, 3, 3, 7>>
ScenarioY == <<-1000000000, -1000000000, -1000010000, -2000000000>>

\* The multiple of 1e-8 nearest to v.
Nearest8(v) == CHOOSE r \in (v - 4)..(v + 4) : r % 10 = 0
Populated == { i \in 0..(ScanRange - 1) : \E k \in 1..Len(tx) : tx[k] = i }
ValuesAt(i) == { Nearest8(ty[k]) : k \in { j \in 1..Len(tx) : tx[j] = i } }
CountAt(i, v) == Cardinality({ k \in 1..Len(tx) : tx[k] = i /\ Nearest8(ty[k]) = v })

\* C8 as the specification words it: on the scenario, keep='all' gives
\* indices [3,3,7] and energies [-1.0,-1.00001,-2.0], keep='min' gives [3,7]
\* and [-1.00001,-2.0], keep='frequent' gives [3,7] and [-1.0,-2.0].
C8_SpecScenario ==
    (tPhase = "done" /\ tx = ScenarioX /\ ty = ScenarioY) =>
        /\ keep = "all" => /\ new_x = <<3, 3, 7>>
                           /\ new_y = <<-1000000000, -1000010000, -2000000000>>
        /\ keep = "min" => /\ new_x = <<3, 7>>
                           /\ new_y = <<-1000010000, -2000000000>>
        /\ keep = "frequent" => /\ new_x = <<3, 7>>
                                /\ new_y = <<-1000000000, -2000000000>>

\* C8, amended: trim returns, by ascending populated index of [0, 50), the
\* energies rounded to 8 decimals and deduplicated; keep='all' lists the
\* distinct values of an index in ascending order, keep='min' gives the least,
\* keep='frequent' the one of highest multiplicity, the least of them on a tie.
C8_TrimReduces ==
    tPhase = "done" =>
        /\ Len(new_x) = Len(new_y)
        /\ { new_x[j] : j \in 1..Len(new_x) } = Populated
        /\ \A j \in 1..Len(new_x) : new_y[j] \in ValuesAt(new_x[j])
        /\ keep = "all" =>
              /\ \A i \in Populated : \A v \in ValuesAt(i) :
                    \E j \in 1..Len(new_x) : new_x[j] = i /\ new_y[j] = v
              /\ \A j \in 1..(Len(new_x) - 1) :
                    \/ new_x[j] < new_x[j + 1]
                    \/ new_x[j] = new_x[j + 1] /\ new_y[j] < new_y[j + 1]
        /\ keep # "all" =>
              \A j \in 1..(Len(new_x) - 1) : new_x[j] < new_x[j + 1]
        /\ keep = "min" =>
              \A j \in 1..Len(new_x) : \A v \in ValuesAt(new_x[j]) : new_y[j] <= v
        /\ keep = "frequent" =>
              \A j \in 1..Len(new_x) : \A v \in ValuesAt(new_x[j]) :
                  \/ CountAt(new_x[j], v) < CountAt(new_x[j], new_y[j])
                  \/ CountAt(new_x[j], v) = CountAt(new_x[j], new_y[j]) /\ new_y[j] <= v
        /\ (tx = ScenarioX /\ ty = ScenarioY /\ keep = "all") =>
              /\ new_x = <<3, 3, 7>>
              /\ new_y = <<-1000010000, -1000000000, -2000000000>>

\* trim has run on the scenario with keep='all'.
C8_Witness ==
    /\ tPhase = "done" /\ tx = ScenarioX /\ ty = ScenarioY /\ keep = "all"
    /\ new_y = <<-1000010000, -1000000000, -2000000000>>

(***************************************************************************)
(* run_calcs (run_calc.py)                                                 *)
(***************************************************************************)
\* The time and memory arguments, a character each.
TimeArgs == { <<"1", "d">>, <<"2", "4", "H">>, <<"9", "0", "m">>, <<"5", "s">>,
              <<"x", "h">>, <<"h">>, <<>> }
MemoryArgs == { <<"2", "G", "B">>, <<"5", "1", "2", "m", "b">>, <<"x", "G", "B">>,
                <<"G", "B">>, <<"2", "K", "B">>, <<"2">>, <<>> }

\* str.lower() and str.upper() on the letters these strings hold.
LowerOf == [D |-> "d", H |-> "h", M |-> "m", G |-> "g", B |-> "b", K |-> "k", S |-> "s"]
UpperOf == [d |-> "D", h |-> "H", m |-> "M", g |-> "G", b |-> "B", k |-> "K", s |-> "S",
            x |-> "X"]
Lower(str) == [k \in 1..Len(str) |-> IF str[k] \in DOMAIN LowerOf THEN LowerOf[str[k]]
                                     ELSE str[k]]
Upper(str) == [k \in 1..Len(str) |-> IF str[k] \in DOMAIN UpperOf THEN UpperOf[str[k]]
                                     ELSE str[k]]

IsDigit(c) == \E k \in 1..10 : DigitChar[k] = c
DigitValue(c) == (CHOOSE k \in 1..10 : DigitChar[k] = c) - 1

\* Whether int(str) returns (a non-empty run of digits) and what.
IsInt(str) == str # <<>> /\ \A k \in 1..Len(str) : IsDigit(str[k])
RECURSIVE IntOf(_)
IntOf(str) == IF str = <<>> THEN 0
              ELSE 10 * IntOf(SubSeq(str, 1, Len(str) - 1)) + DigitValue(str[Len(str)])

\* Lines 269-277: the time in minutes, or the exception raised.
ParseTime(t) ==
    LET low == Lower(t)
        num == SubSeq(low, 1, Len(low) - 1)
    IN  IF low = <<>> THEN [err |-> "IndexError", minutes |-> 0]
        ELSE IF low[Len(low)] \notin {"d", "h", "m"}
             THEN [err |-> "ValueError", minutes |-> 0]
        ELSE IF ~IsInt(num) THEN [err |-> "ValueError", minutes |-> 0]
        ELSE [err |-> "none",
              minutes |-> IF low[Len(low)] = "d" THEN IntOf(num) * 24 * 60
                          ELSE IF low[Len(low)] = "h" THEN IntOf(num) * 60
                          ELSE IntOf(num)]

\* memory[-2:]
LastTwo(str) == SubSeq(str, IF Len(str) > 2 THEN Len(str) - 1 ELSE 1, Len(str))

\* Lines 279-281: the memory string upper-cased, or the exception raised.
ParseMemory(m) ==
    LET up == Upper(m)
    IN  IF LastTwo(up) \notin { <<"M", "B">>, <<"G", "B">> }
        THEN [err |-> "ValueError", memory |-> up]
        ELSE [err |-> "none", memory |-> up]

\* The paths a pattern can match: the directories of the path below the
\* working root, the name split by os.path.splitext, and whether
\* os.path.abspath puts the path under the root.
RunFile ==
    [ com    |-> [lexIn |-> TRUE, dirs |-> <<"a", "mo">>, stem |-> "hf_sp", ext |-> ".com"],
      chk    |-> [lexIn |-> TRUE, dirs |-> <<"a", "mo">>, stem |-> "hf_sp", ext |-> ".chk"],
      fchk   |-> [lexIn |-> TRUE, dirs |-> <<"a", "mo">>, stem |-> "hf_sp", ext |-> ".fchk"],
      npy    |-> [lexIn |-> TRUE, dirs |-> <<"b", "mo">>, stem |-> "oneint", ext |-> ".npy"],
      hfcom  |-> [lexIn |-> TRUE, dirs |-> <<"a", "hf">>, stem |-> "hf_sp", ext |-> ".com"],
      upcom  |-> [lexIn |-> FALSE, dirs |-> <<"..", "mo">>, stem |-> "hf_sp", ext |-> ".com"],
      wfn0   |-> [lexIn |-> TRUE, dirs |-> <<"a", "mo", "ap1rog">>, stem |-> "0", ext |-> ""],
      wfn1   |-> [lexIn |-> TRUE, dirs |-> <<"a", "mo", "ap1rog">>, stem |-> "1", ext |-> ""],
      deep   |-> [lexIn |-> TRUE, dirs |-> <<"a", "mo", "ap1rog", "0">>, stem |-> "calculate",
                  ext |-> ".py"],
      modir  |-> [lexIn |-> TRUE, dirs |-> <<"a">>, stem |-> "mo", ext |-> ""],
      top    |-> [lexIn |-> TRUE, dirs |-> <<>>, stem |-> "a", ext |-> ""] ]

RunFiles == DOMAIN RunFile

\* The number of components of the patterns.
RunDepths == 1..5

\* `_, orbital, *wfn = filename.split(os.sep)`, line 288: the second segment
\* is 'mo' (the name itself when the path has two segments), and len(wfn).
OrbitalIsMo(f) ==
    IF Len(f.dirs) >= 2 THEN f.dirs[2] = "mo" ELSE f.stem = "mo" /\ f.ext = ""
WfnLen(f) == Len(f.dirs) - 1

\* The branch of lines 293-310 a file takes, "none" if it takes none.
Branch(f) ==
    IF OrbitalIsMo(f) /\ f.ext = ".com" THEN "com"
    ELSE IF OrbitalIsMo(f) /\ f.ext = ".chk" THEN "chk"
    ELSE IF OrbitalIsMo(f) /\ f.ext = ".fchk" THEN "fchk"
    ELSE IF WfnLen(f) = 2 THEN "wfn"
    ELSE "none"

\* The command and submit_job a branch sets.
CommandOf(f, branch) ==
    IF branch = "com" THEN [argv |-> <<"hf_sp.sh">>, submit |-> TRUE]
    ELSE IF branch = "chk" THEN [argv |-> <<"formchk", f.stem, f.ext>>, submit |-> FALSE]
    ELSE IF branch = "fchk"
    THEN [argv |-> <<"horton_gaussian_fchk.py", f.stem, f.ext>>, submit |-> FALSE]
    ELSE [argv |-> <<"python", "../calculate.py">>, submit |-> TRUE]

\* `command` before the first assignment to it.
Unbound == <<>>

\* One iteration of the loop of run_calcs (lines 283-321).  st.command is the
\* local variable `command`: an iteration that takes no branch leaves it as
\* the iteration before set it, and submit_job False.
RunBody(st, id, minutes, memory) ==
    LET f == RunFile[id]
        branch == Branch(f)
        command == IF branch = "none" THEN st.command ELSE CommandOf(f, branch).argv
        submit_job == branch # "none" /\ CommandOf(f, branch).submit
        st1 == [st EXCEPT !.command = command,
                          !.scripts = IF branch = "com" THEN @ \cup {f.dirs} ELSE @]
    IN  IF ~f.lexIn THEN st
        ELSE IF Len(f.dirs) < 1 THEN [st EXCEPT !.err = "ValueError"]
        ELSE IF command = Unbound THEN [st1 EXCEPT !.err = "UnboundLocalError"]
        ELSE [st1 EXCEPT !.executed = Append(@,
                 [file |-> id, cwd |-> f.dirs, argv |-> command, sbatch |-> submit_job,
                  time |-> IF submit_job THEN minutes ELSE 0,
                  mem |-> IF submit_job THEN memory ELSE <<>>])]

RECURSIVE RunLoop(_, _, _, _)
RunLoop(st, ms, minutes, memory) ==
    IF st.err # "none" \/ ms = <<>> THEN st
    ELSE RunLoop(RunBody(st, Head(ms), minutes, memory), Tail(ms), minutes, memory)

\* run_calcs(pattern, time, memory), with ms what glob.glob(pattern) returns.
RunCalcs(ms, t, m) ==
    LET pt == ParseTime(t)
        pm == ParseMemory(m)
        st0 == [executed |-> <<>>, scripts |-> {}, command |-> Unbound, err |-> "none"]
    IN  IF pt.err # "none" THEN [st0 EXCEPT !.err = pt.err]
        ELSE IF pm.err # "none" THEN [st0 EXCEPT !.err = pm.err]
        ELSE RunLoop(st0, ms, pt.minutes, pm.memory)

RunInit ==
    /\ DIdle
    /\ EIdle
    /\ TIdle
    /\ rtime \in TimeArgs
    /\ rmemory \in MemoryArgs
    /\ rpresent \in Within(RunFiles, MaxMatched)
    /\ rmatched = <<>>
    /\ executed = <<>>
    /\ scripts = {}
    /\ rError = "none"
    /\ rPhase = "idle"

RunCalcsCall ==
    /\ rPhase = "idle"
    /\ \E d \in RunDepths :
          \E ms \in Orders({ id \in rpresent : Len(RunFile[id].dirs) + 1 = d }) :
             LET r == RunCalcs(ms, rtime, rmemory)
             IN  /\ rmatched' = ms
                 /\ executed' = r.executed
                 /\ scripts' = r.scripts
                 /\ rError' = r.err
    /\ rPhase' = "done"
    /\ UNCHANGED <<rtime, rmemory, rpresent>>
    /\ UNCHANGED <<dvars, evars, tvars>>

RunNext == RunCalcsCall

RunSpec == RunInit /\ [][RunNext]_vars

\* A time or memory string that is an integer followed by one of the
\* suffixes, whatever the case of the letters.
IntThen(str, suffixes) ==
    \E n \in 1..Len(str) :
        /\ IsInt(SubSeq(str, 1, n))
        /\ Upper(SubSeq(str, n + 1, Len(str))) \in suffixes
ValidTime(t) == IntThen(t, { <<"D">>, <<"H">>, <<"M">> })
ValidMemory(m) == IntThen(m, { <<"M", "B">>, <<"G", "B">> })

\* C9: run_calcs validates the resource strings before it dispatches: no
\* job is submitted with a time that is not <int>[d|h|m] or a memory that is
\* not <int>[MB|GB].
C9_ResourcesValidated ==
    rPhase = "done" =>
        \A k \in 1..Len(executed) :
            executed[k].sbatch => (ValidTime(rtime) /\ ValidMemory(rmemory))

\* The files of the recognized kinds: a .com, .chk or .fchk file under an
\* 'mo' directory, or a file in a {wavefunction}/{sampleIndex} directory.
RecognizedKind(f) ==
    \/ OrbitalIsMo(f) /\ f.ext \in {".com", ".chk", ".fchk"}
    \/ WfnLen(f) = 2

\* C10: a command is run or submitted for a file only if the file is of a
\* recognized kind, and it is the command of that file.
C10_CommandOfOwnFile ==
    rPhase = "done" =>
        \A k \in 1..Len(executed) :
            LET f == RunFile[executed[k].file]
            IN  /\ RecognizedKind(f)
                /\ executed[k].argv = CommandOf(f, Branch(f)).argv

====
